---- MODULE Spec2Model ----
(***************************************************************************)
(* Model of the speech-evaluation server (src/unnamed/part_000): the       *)
(* /evaluation request handler, the sequential CSV download, the grouping  *)
(* of rows by speaker and the three ranking queries.                       *)
(*                                                                         *)
(* JavaScript values are modelled as follows.                              *)
(*   text       a TLA+ string; Chars gives its characters                  *)
(*   undefined  the text Undefined (no CSV field holds it)                 *)
(*   number     a record [nan, v]: NaN is [nan |-> TRUE, v |-> 0]          *)
(*   null       the empty sequence; a returned name n is <<n>>             *)
(*   object     the sequence of its own properties [key, val] in creation  *)
(*              order; OwnPropertyKeys gives the order enumeration uses    *)
(*   array      a sequence (index i of the code is index i + 1 here)       *)
(***************************************************************************)
EXTENDS Integers, Sequences, FiniteSets, TLC

\* Bounds of the model.
MaxTables == 2
MaxTotalRows == 2
MaxCalls == 2

(***************************************************************************)
(* Texts                                                                   *)
(***************************************************************************)
Undefined == "#undefined"

\* The characters of every text of the model's universe.
Chars(s) ==
  CASE s = "" -> <<>>
    [] s = "0" -> <<"0">>
    [] s = "5" -> <<"5">>
    [] s = "7" -> <<"7">>
    [] s = "10" -> <<"1", "0">>
    [] s = "2013-01-01" -> <<"2", "0", "1", "3", "-", "0", "1", "-", "0", "1">>
    [] s = "2012-12-31" -> <<"2", "0", "1", "2", "-", "1", "2", "-", "3", "1">>
    [] s = "Alice" -> <<"A", "l", "i", "c", "e">>
    [] s = "Bob" -> <<"B", "o", "b">>
    [] s = "constructor" -> <<"c", "o", "n", "s", "t", "r", "u", "c", "t", "o", "r">>
    [] s = "Internal Security" -> <<"I", "n", "t", "e", "r", "n", "a", "l", " ", "S", "e", "c", "u", "r", "i", "t", "y">>
    [] s = "Budget" -> <<"B", "u", "d", "g", "e", "t">>
    [] s = Undefined -> <<"u", "n", "d", "e", "f", "i", "n", "e", "d">>
    [] OTHER -> <<"?">>

Digits == {"0", "1", "2", "3", "4", "5", "6", "7", "8", "9"}

DigitVal(c) ==
  CASE c = "0" -> 0 [] c = "1" -> 1 [] c = "2" -> 2 [] c = "3" -> 3
    [] c = "4" -> 4 [] c = "5" -> 5 [] c = "6" -> 6 [] c = "7" -> 7
    [] c = "8" -> 8 [] c = "9" -> 9

NaN == [nan |-> TRUE, v |-> 0]
Num(n) == [nan |-> FALSE, v |-> n]

\* a + b of two numbers: NaN when either is NaN.
NumAdd(a, b) == IF a.nan \/ b.nan THEN NaN ELSE Num(a.v + b.v)

\* a === b of two numbers: NaN equals nothing.
NumEq(a, b) == ~a.nan /\ ~b.nan /\ a.v = b.v

\* The length of the longest prefix of decimal digits of cs, from index i.
RECURSIVE DigitRun(_, _)
DigitRun(cs, i) ==
  IF i \in DOMAIN cs /\ cs[i] \in Digits THEN 1 + DigitRun(cs, i + 1) ELSE 0

\* The value of the decimal digits cs[i .. j].
RECURSIVE DigitsValue(_, _, _)
DigitsValue(cs, i, j) ==
  IF j < i THEN 0 ELSE 10 * DigitsValue(cs, i, j - 1) + DigitVal(cs[j])

\* The number of leading blanks of cs, from index i.
RECURSIVE BlankRun(_, _)
BlankRun(cs, i) ==
  IF i \in DOMAIN cs /\ cs[i] = " " THEN 1 + BlankRun(cs, i + 1) ELSE 0

\* parseInt(text): leading blanks and a sign are skipped, the longest prefix
\* of decimal digits is the value, and there being none gives NaN.
ParseDigitsAt(cs, sign, d, n) ==
  IF n = 0 THEN NaN ELSE Num(sign * DigitsValue(cs, d, d + n - 1))

ParseSignedAt(cs, b) ==
  IF b \in DOMAIN cs /\ cs[b] = "-" THEN ParseDigitsAt(cs, -1, b + 1, DigitRun(cs, b + 1))
  ELSE IF b \in DOMAIN cs /\ cs[b] = "+" THEN ParseDigitsAt(cs, 1, b + 1, DigitRun(cs, b + 1))
  ELSE ParseDigitsAt(cs, 1, b, DigitRun(cs, b))

ParseIntChars(cs) == ParseSignedAt(cs, BlankRun(cs, 1) + 1)

ParseInt(s) == ParseIntChars(Chars(s))

\* Hours east of UTC of the zones the server may run in.
TimeZones == {-5, 1}

\* new Date(text) for the date-only form YYYY-MM-DD, the one form that is
\* read as midnight UTC; any other text of the universe is an invalid date.
DateParseChars(cs) ==
  IF /\ Len(cs) = 10
     /\ cs[5] = "-" /\ cs[8] = "-"
     /\ \A i \in {1, 2, 3, 4, 6, 7, 9, 10} : cs[i] \in Digits
  THEN [valid |-> TRUE, year |-> DigitsValue(cs, 1, 4),
        month |-> DigitsValue(cs, 6, 7), day |-> DigitsValue(cs, 9, 10)]
  ELSE [valid |-> FALSE, year |-> 0, month |-> 0, day |-> 0]

DateParse(s) == DateParseChars(Chars(s))

\* new Date(text).getFullYear(): the year of the local calendar day, which
\* west of UTC is the day before the UTC day the text names.
LocalYear(d, zone) ==
  IF ~d.valid THEN NaN
  ELSE IF zone < 0 /\ d.month = 1 /\ d.day = 1 THEN Num(d.year - 1)
  ELSE Num(d.year)

GetFullYear(s, zone) == LocalYear(DateParse(s), zone)

(***************************************************************************)
(* Arrays and objects                                                      *)
(***************************************************************************)
\* Array.prototype.sort as an order of the indices 1..n: a stable insertion
\* sort, less[i][j] telling that the comparator's result for (i, j) is
\* negative (a NaN result counts as 0).
InsertAt(sorted, x, p) ==
  SubSeq(sorted, 1, p) \o <<x>> \o SubSeq(sorted, p + 1, Len(sorted))

LastOf(after) ==
  IF after = {} THEN 0 ELSE CHOOSE j \in after : \A k \in after : k <= j

SortInsert(sorted, x, less) ==
  InsertAt(sorted, x, LastOf({j \in DOMAIN sorted : ~less[x][sorted[j]]}))

RECURSIVE SortOrder(_, _)
SortOrder(n, less) ==
  IF n = 0 THEN <<>> ELSE SortInsert(SortOrder(n - 1, less), n, less)

\* array.sort(comparator): the array in the sorted order.
ArraySort(array, less) ==
  [i \in DOMAIN array |-> array[SortOrder(Len(array), less)[i]]]

\* The property names every object inherits from Object.prototype.
ObjectPrototypeKeys ==
  {"constructor", "__proto__", "hasOwnProperty", "isPrototypeOf",
   "propertyIsEnumerable", "toLocaleString", "toString", "valueOf"}

\* Whether a property name is an array index: a canonical decimal numeral.
IsIndexChars(cs) ==
  /\ Len(cs) > 0
  /\ \A i \in DOMAIN cs : cs[i] \in Digits
  /\ (Len(cs) = 1 \/ cs[1] # "0")

IsArrayIndex(key) == IsIndexChars(Chars(key))

HasOwn(obj, key) == \E i \in DOMAIN obj : obj[i].key = key

OwnIndex(obj, key) == CHOOSE i \in DOMAIN obj : obj[i].key = key

\* obj[key] === undefined: neither an own nor an inherited property.
IsUndefinedProp(obj, key) == ~HasOwn(obj, key) /\ key \notin ObjectPrototypeKeys

\* obj[key] = val: an own property keeps its place, a new one is created
\* last; the inherited accessor __proto__ swallows a value that is no object.
SetProp(obj, key, val) ==
  IF HasOwn(obj, key)
  THEN [obj EXCEPT ![OwnIndex(obj, key)] = [key |-> key, val |-> val]]
  ELSE IF key = "__proto__" THEN obj
  ELSE Append(obj, [key |-> key, val |-> val])

\* The order for-in and Object.entries enumerate own properties in: array
\* indices in ascending numeric order, then the other names in creation order.
IndexValue(e) == ParseInt(e.key).v

IndexLess(ints) ==
  [i \in DOMAIN ints |-> [j \in DOMAIN ints |-> IndexValue(ints[i]) < IndexValue(ints[j])]]

IndicesFirst(ints, strs) == ArraySort(ints, IndexLess(ints)) \o strs

OwnPropertyKeys(obj) ==
  IndicesFirst(SelectSeq(obj, LAMBDA e : IsArrayIndex(e.key)),
               SelectSeq(obj, LAMBDA e : ~IsArrayIndex(e.key)))

ObjectEntries(obj) == OwnPropertyKeys(obj)

(***************************************************************************)
(* The evaluation pipeline                                                 *)
(***************************************************************************)
\* enum ColumnDefinitions: the zero-based column of each field.
ColumnDefinitions == [Speaker |-> 0, Topic |-> 1, Date |-> 2, Words |-> 3]

\* array[i] of the code: the element, or undefined past the end.
Field(row, i) == IF i + 1 \in DOMAIN row THEN row[i + 1] ELSE Undefined

\* validateCsvHeader(csvFilesData[csvFile][0]); header is <<row>>, or <<>>
\* for the undefined first row of a table without rows, indexing which
\* throws a TypeError.
validateCsvHeader(header) ==
  IF header = <<>> THEN [threw |-> TRUE, value |-> FALSE]
  ELSE [threw |-> FALSE,
        value |-> /\ Field(header[1], ColumnDefinitions.Speaker) = "Speaker"
                  /\ Field(header[1], ColumnDefinitions.Topic) = "Topic"
                  /\ Field(header[1], ColumnDefinitions.Date) = "Date"
                  /\ Field(header[1], ColumnDefinitions.Words) = "Words"]

\* The speach record of a row.
SpeachOf(rowData) ==
  [topic |-> Field(rowData, ColumnDefinitions.Topic),
   date |-> Field(rowData, ColumnDefinitions.Date),
   words |-> Field(rowData, ColumnDefinitions.Words)]

\* One pass of the inner loop of sortAndGroupData: a speaker whose property
\* is undefined gets a new entry, an own entry gets the speach appended, and
\* an inherited property has no speaches to spread, which throws.
GroupRow(speakers, rowData) ==
  LET speaker == Field(rowData, ColumnDefinitions.Speaker)
      speach == SpeachOf(rowData)
  IN  IF IsUndefinedProp(speakers, speaker)
      THEN [threw |-> FALSE,
            speakers |-> SetProp(speakers, speaker,
                                 [name |-> speaker, speaches |-> <<speach>>])]
      ELSE IF HasOwn(speakers, speaker)
      THEN [threw |-> FALSE,
            speakers |-> [speakers EXCEPT ![OwnIndex(speakers, speaker)].val.speaches =
                            Append(@, speach)]]
      ELSE [threw |-> TRUE, speakers |-> speakers]

RECURSIVE GroupRows(_, _, _)
GroupRows(speakers, rows, i) ==
  IF i > Len(rows) THEN [threw |-> FALSE, speakers |-> speakers]
  ELSE LET r == GroupRow(speakers, rows[i])
       IN  IF r.threw THEN r ELSE GroupRows(r.speakers, rows, i + 1)

\* The outer loop of sortAndGroupData from table i on: st holds the speakers
\* object and the csvFilesData array, whose valid tables lose their header.
RECURSIVE GroupFiles(_, _)
GroupFiles(st, i) ==
  IF i > Len(st.csvFilesData) THEN st
  ELSE LET file == st.csvFilesData[i]
           isHeaderValid == validateCsvHeader(IF Len(file) = 0 THEN <<>> ELSE <<file[1]>>)
       IN  IF isHeaderValid.threw THEN [st EXCEPT !.threw = TRUE]
           ELSE IF ~isHeaderValid.value THEN GroupFiles(st, i + 1)
           ELSE LET shifted == Tail(file)
                    files == [st.csvFilesData EXCEPT ![i] = shifted]
                    r == GroupRows(st.speakers, shifted, 1)
                IN  IF r.threw
                    THEN [threw |-> TRUE, speakers |-> r.speakers, csvFilesData |-> files]
                    ELSE GroupFiles([threw |-> FALSE, speakers |-> r.speakers,
                                     csvFilesData |-> files], i + 1)

\* sortAndGroupData(csvFilesData): whether it threw, the speakers object and
\* the argument array as the call leaves it.
sortAndGroupData(files) ==
  GroupFiles([threw |-> FALSE, speakers |-> <<>>, csvFilesData |-> files], 1)

\* speaches.reduce((p, c) => p + parseInt(c.words), 0), over the first n.
RECURSIVE TotalWordsUpTo(_, _)
TotalWordsUpTo(speaches, n) ==
  IF n = 0 THEN Num(0)
  ELSE NumAdd(TotalWordsUpTo(speaches, n - 1), ParseInt(speaches[n].words))

TotalWords(speaches) == TotalWordsUpTo(speaches, Len(speaches))

\* The speakersByWords object: for-in over speakers, keyed by the entry's name.
RECURSIVE SpeakersByWordsUpTo(_, _)
SpeakersByWordsUpTo(keys, n) ==
  IF n = 0 THEN <<>>
  ELSE SetProp(SpeakersByWordsUpTo(keys, n - 1), keys[n].val.name,
               TotalWords(keys[n].val.speaches))

SpeakersByWords(keys) == SpeakersByWordsUpTo(keys, Len(keys))

\* (a, b) => a[1] - b[1] is negative; a NaN difference is not.
WordsLess(a, b) == ~a.val.nan /\ ~b.val.nan /\ a.val.v - b.val.v < 0

WordsLessOf(entries) ==
  [i \in DOMAIN entries |-> [j \in DOMAIN entries |-> WordsLess(entries[i], entries[j])]]

\* sorted.shift()?.[0]
ShiftName(sorted) == IF Len(sorted) = 0 THEN <<>> ELSE <<sorted[1].key>>

\* Lines 54 to 60: null for no entry, else the name the ascending sort puts first.
LeastOf(entries) ==
  IF Len(entries) = 0 THEN <<>> ELSE ShiftName(ArraySort(entries, WordsLessOf(entries)))

\* getLeastWordySpeaker(speakers): the value returned (<<>> for null) and
\* the speakers object as the call leaves it.
getLeastWordySpeaker(speakers) ==
  [ret |-> LeastOf(ObjectEntries(SpeakersByWords(OwnPropertyKeys(speakers)))),
   speakers |-> speakers]

\* The predicate of the filter of filterForSpeakers for the given options.
SpeachMatches(speach, filterOptions, zone) ==
  IF filterOptions.option = "filterByYear"
  THEN NumEq(GetFullYear(speach.date, zone), Num(filterOptions.value))
  ELSE IF filterOptions.option = "filterByTopic"
  THEN speach.topic = filterOptions.value
  ELSE FALSE

\* filteredSpeaches.length of one speaker.
MatchCount(speaches, filterOptions, zone) ==
  Len(SelectSeq(speaches, LAMBDA sp : SpeachMatches(sp, filterOptions, zone)))

\* if (filteredSpeaches.length > 0) filteredSpeakers[speakersName] = length
SetIfPositive(obj, key, n) == IF n > 0 THEN SetProp(obj, key, n) ELSE obj

\* The filteredSpeakers object: for-in over speakers, an entry per speaker
\* with at least one matching speach, holding the number of matches.
RECURSIVE FilteredSpeakersUpTo(_, _, _, _)
FilteredSpeakersUpTo(keys, n, filterOptions, zone) ==
  IF n = 0 THEN <<>>
  ELSE SetIfPositive(FilteredSpeakersUpTo(keys, n - 1, filterOptions, zone),
                     keys[n].val.name,
                     MatchCount(keys[n].val.speaches, filterOptions, zone))

FilteredSpeakers(keys, filterOptions, zone) ==
  FilteredSpeakersUpTo(keys, Len(keys), filterOptions, zone)

\* The speakers object with every speaker's speaches narrowed to the matches.
Narrowed(speakers, filterOptions, zone) ==
  [i \in DOMAIN speakers |->
     [speakers[i] EXCEPT !.val.speaches =
        SelectSeq(@, LAMBDA sp : SpeachMatches(sp, filterOptions, zone))]]

\* filterForSpeakers storing the filtered array back into the speaker
\* (speakers[speaker].speaches = speakers[speaker].speaches.filter(...)).
filterForSpeakersInPlace(speakers, filterOptions, zone) ==
  [ret |-> FilteredSpeakers(OwnPropertyKeys(speakers), filterOptions, zone),
   speakers |-> Narrowed(speakers, filterOptions, zone)]

\* filterForSpeakers(speakers, filterOptions): the object returned and the
\* speakers object as the call leaves it.
filterForSpeakers(speakers, filterOptions, zone) ==
  [ret |-> FilteredSpeakers(OwnPropertyKeys(speakers), filterOptions, zone),
   speakers |-> speakers]

\* (a, b) => b[1] - a[1] is negative.
CountLessOf(entries) ==
  [i \in DOMAIN entries |-> [j \in DOMAIN entries |-> entries[j].val - entries[i].val < 0]]

\* Lines 111 to 117: null for no entry, else the name the descending sort puts first.
MostOf(entries) ==
  IF Len(entries) = 0 THEN <<>> ELSE ShiftName(ArraySort(entries, CountLessOf(entries)))

FilteredResult(filtered) ==
  [ret |-> MostOf(ObjectEntries(filtered.ret)), speakers |-> filtered.speakers]

\* getFilteredSpeaker(speakers, filterOptions): the value returned and the
\* speakers object as the call leaves it.
getFilteredSpeaker(speakers, filterOptions, zone) ==
  FilteredResult(filterForSpeakers(speakers, filterOptions, zone))

\* The filter options evaluate passes.
YearOptions == [option |-> "filterByYear", value |-> 2013]
TopicOptions == [option |-> "filterByTopic", value |-> "Internal Security"]

\* JSON.stringify of a returned name or null, as the tokens of the text.
JsonValue(v) == IF v = <<>> THEN <<"null">> ELSE <<"\"", v[1], "\"">>

\* JSON.stringify({mostSpeaches, mostSecurity, leastWordy}).
JsonStringify(speaches, security, wordy) ==
  <<"{", "\"mostSpeaches\"", ":">> \o JsonValue(speaches)
    \o <<",", "\"mostSecurity\"", ":">> \o JsonValue(security)
    \o <<",", "\"leastWordy\"", ":">> \o JsonValue(wordy) \o <<"}">>

(***************************************************************************)
(* Inputs                                                                  *)
(***************************************************************************)
ValidHeader == <<"Speaker", "Topic", "Date", "Words">>

\* First rows: the expected header, and one too short (no Words column).
HeaderRows == {ValidHeader, <<"Speaker", "Topic", "Date">>}

DataRows ==
  {<<"Alice", "Internal Security", "2013-01-01", "10">>,
   <<"Bob", "Budget", "2013-01-01", "5">>,
   <<"Bob", "Budget", "2012-12-31", "">>,
   <<"7", "Internal Security", "2013-01-01", "10">>,
   <<"constructor", "Internal Security", "2013-01-01", "5">>,
   <<"Alice", "Budget", "2012-12-31", "0">>}

\* The tables of at most n data rows: a first row and data rows, or no row.
TablesUpTo(n) ==
  {<<>>} \cup {<<h>> \o rs : h \in HeaderRows,
                            rs \in UNION {[1..k -> DataRows] : k \in 0..n}}

DataRowCount(t) == IF Len(t) = 0 THEN 0 ELSE Len(t) - 1

\* The lists of exactly k tables holding at most r data rows together.
RECURSIVE ListsOf(_, _)
ListsOf(k, r) ==
  IF k = 0 THEN {<<>>}
  ELSE UNION {{<<t>> \o l : l \in ListsOf(k - 1, r - DataRowCount(t))} :
              t \in TablesUpTo(r)}

InputLists == UNION {ListsOf(k, MaxTotalRows) : k \in 0..MaxTables}

(***************************************************************************)
(* State                                                                   *)
(***************************************************************************)
VARIABLES
  tables,        \* the table each URL of the request serves, in request order
  zone,          \* the server's time zone, in hours east of UTC
  pc,            \* where the handler (or the caller of evaluate) stands
  urls,          \* the handler's urls: URL k is the number k
  nextUrl,       \* getCSVData: the index of the next URL of its loop
  inflight,      \* the URLs whose readCSV promise is pending
  buf,           \* readCSV: the rows pushed so far, per pending URL
  csvFilesData,  \* the array getCSVData fills and evaluate is given
  calls,         \* how many times evaluate was invoked
  speakers,      \* evaluate: sortedAndGroupedData
  leastWordy,    \* evaluate: leastWordy
  mostSpeaches,  \* evaluate: mostSpeaches
  mostSecurity,  \* evaluate: mostSecurity
  results,       \* what the invocations of evaluate returned
  logged         \* the results written to the console

vars ==
  <<tables, zone, pc, urls, nextUrl, inflight, buf, csvFilesData, calls,
    speakers, leastWordy, mostSpeaches, mostSecurity, results, logged>>

handlerVars == <<urls, nextUrl, inflight, buf, logged>>
evalVars == <<speakers, leastWordy, mostSpeaches, mostSecurity, results, calls>>

\* request.query.url as Express parses it: absent, one text, or an array.
QueryOf(n) ==
  IF n = 0 THEN [kind |-> "absent", url |-> <<>>]
  ELSE IF n = 1 THEN [kind |-> "string", url |-> 1]
  ELSE [kind |-> "array", url |-> [k \in 1..n |-> k]]

getRequestUrls(query) ==
  IF query.kind = "array" THEN query.url
  ELSE IF query.kind = "string" THEN <<query.url>>
  ELSE <<>>

\* A request arrives at the listening server.
Init ==
  /\ tables \in InputLists
  /\ zone \in TimeZones
  /\ pc = "request"
  /\ urls = <<>>
  /\ nextUrl = 1
  /\ inflight = {}
  /\ buf = <<>>
  /\ csvFilesData = <<>>
  /\ calls = 0
  /\ speakers = <<>>
  /\ leastWordy = <<>>
  /\ mostSpeaches = <<>>
  /\ mostSecurity = <<>>
  /\ results = <<>>
  /\ logged = <<>>

(***************************************************************************)
(* The request handler                                                     *)
(***************************************************************************)
\* const urls = getRequestUrls(req), and getCSVData(urls) is entered.
GetRequestUrls ==
  /\ pc = "request"
  /\ urls' = getRequestUrls(QueryOf(Len(tables)))
  /\ pc' = "getCSVData"
  /\ UNCHANGED <<tables, zone, nextUrl, inflight, buf, csvFilesData, logged>>
  /\ UNCHANGED evalVars

\* The loop of getCSVData without its await.
NoAwait == TRUE

\* await in the loop of getCSVData: the loop goes on to the next URL only
\* when the promise of the one before is settled.
AwaitSettled == inflight = {}

\* readCSV(url) is called for the next URL of the loop.
ReadCSV ==
  /\ pc = "getCSVData"
  /\ nextUrl <= Len(urls)
  /\ AwaitSettled
  /\ inflight' = inflight \cup {urls[nextUrl]}
  /\ buf' = [k \in inflight' |-> IF k \in inflight THEN buf[k] ELSE <<>>]
  /\ nextUrl' = nextUrl + 1
  /\ UNCHANGED <<tables, zone, pc, urls, csvFilesData, logged>>
  /\ UNCHANGED evalVars

\* .on('data', (row) => data.push(row)): the parser hands over the next row.
OnData(k) ==
  /\ pc = "getCSVData"
  /\ k \in inflight
  /\ Len(buf[k]) < Len(tables[k])
  /\ buf' = [buf EXCEPT ![k] = Append(@, tables[k][Len(@) + 1])]
  /\ UNCHANGED <<tables, zone, pc, urls, nextUrl, inflight, csvFilesData, logged>>
  /\ UNCHANGED evalVars

\* .on('end', () => resolve(data)), and data.push of the awaited table.
OnEnd(k) ==
  /\ pc = "getCSVData"
  /\ k \in inflight
  /\ Len(buf[k]) = Len(tables[k])
  /\ csvFilesData' = Append(csvFilesData, buf[k])
  /\ inflight' = inflight \ {k}
  /\ buf' = [j \in inflight' |-> buf[j]]
  /\ UNCHANGED <<tables, zone, pc, urls, nextUrl, logged>>
  /\ UNCHANGED evalVars

\* .on('error', reject): the download or the parse fails, the await throws
\* and the handler's promise is rejected.
OnError(k) ==
  /\ pc = "getCSVData"
  /\ k \in inflight
  /\ inflight' = inflight \ {k}
  /\ buf' = [j \in inflight' |-> buf[j]]
  /\ pc' = "rejected"
  /\ UNCHANGED <<tables, zone, urls, nextUrl, csvFilesData, logged>>
  /\ UNCHANGED evalVars

\* return data of getCSVData, and the handler goes on to evaluate(csvData).
GetCSVDataReturn ==
  /\ pc = "getCSVData"
  /\ nextUrl > Len(urls)
  /\ AwaitSettled
  /\ pc' = "evaluate"
  /\ UNCHANGED <<tables, zone, urls, nextUrl, inflight, buf, csvFilesData, logged>>
  /\ UNCHANGED evalVars

\* console.log of the result.
Log ==
  /\ pc = "returned"
  /\ logged' = Append(logged, results[Len(results)])
  /\ pc' = "logged"
  /\ UNCHANGED <<tables, zone, urls, nextUrl, inflight, buf, csvFilesData>>
  /\ UNCHANGED evalVars

(***************************************************************************)
(* evaluate, statement by statement                                        *)
(***************************************************************************)
\* const sortedAndGroupedData = sortAndGroupData(csvFilesData)
Group ==
  /\ pc = "evaluate"
  /\ LET r == sortAndGroupData(csvFilesData)
     IN  /\ csvFilesData' = r.csvFilesData
         /\ speakers' = IF r.threw THEN <<>> ELSE r.speakers
         /\ pc' = IF r.threw THEN "thrown" ELSE "leastWordy"
  /\ calls' = calls + 1
  /\ leastWordy' = <<>>
  /\ mostSpeaches' = <<>>
  /\ mostSecurity' = <<>>
  /\ UNCHANGED <<tables, zone, results>>
  /\ UNCHANGED handlerVars

\* const leastWordy = getLeastWordySpeaker(sortedAndGroupedData)
LeastWordy ==
  /\ pc = "leastWordy"
  /\ LET r == getLeastWordySpeaker(speakers)
     IN  /\ leastWordy' = r.ret
         /\ speakers' = r.speakers
  /\ pc' = "mostSpeaches"
  /\ UNCHANGED <<tables, zone, csvFilesData, calls, mostSpeaches, mostSecurity, results>>
  /\ UNCHANGED handlerVars

\* const mostSpeaches = getFilteredSpeaker(sortedAndGroupedData, by year 2013)
MostSpeaches ==
  /\ pc = "mostSpeaches"
  /\ LET r == getFilteredSpeaker(speakers, YearOptions, zone)
     IN  /\ mostSpeaches' = r.ret
         /\ speakers' = r.speakers
  /\ pc' = "mostSecurity"
  /\ UNCHANGED <<tables, zone, csvFilesData, calls, leastWordy, mostSecurity, results>>
  /\ UNCHANGED handlerVars

\* const mostSecurity = getFilteredSpeaker(sortedAndGroupedData, by topic)
MostSecurity ==
  /\ pc = "mostSecurity"
  /\ LET r == getFilteredSpeaker(speakers, TopicOptions, zone)
     IN  /\ mostSecurity' = r.ret
         /\ speakers' = r.speakers
  /\ pc' = "stringify"
  /\ UNCHANGED <<tables, zone, csvFilesData, calls, leastWordy, mostSpeaches, results>>
  /\ UNCHANGED handlerVars

\* return JSON.stringify({...})
Return ==
  /\ pc = "stringify"
  /\ results' = Append(results, JsonStringify(mostSpeaches, mostSecurity, leastWordy))
  /\ pc' = "returned"
  /\ UNCHANGED <<tables, zone, csvFilesData, calls, speakers, leastWordy,
                 mostSpeaches, mostSecurity>>
  /\ UNCHANGED handlerVars

Next ==
  \/ GetRequestUrls
  \/ ReadCSV
  \/ \E k \in inflight : OnData(k)
  \/ \E k \in inflight : OnEnd(k)
  \/ \E k \in inflight : OnError(k)
  \/ GetCSVDataReturn
  \/ Group
  \/ LeastWordy
  \/ MostSpeaches
  \/ MostSecurity
  \/ Return
  \/ Log

Spec == Init /\ [][Next]_vars

(***************************************************************************)
(* evaluate applied to a list of tables, and again to the same list        *)
(***************************************************************************)
InitEval ==
  /\ tables \in InputLists
  /\ zone \in TimeZones
  /\ pc = "evaluate"
  /\ urls = <<>>
  /\ nextUrl = 1
  /\ inflight = {}
  /\ buf = <<>>
  /\ csvFilesData = tables
  /\ calls = 0
  /\ speakers = <<>>
  /\ leastWordy = <<>>
  /\ mostSpeaches = <<>>
  /\ mostSecurity = <<>>
  /\ results = <<>>
  /\ logged = <<>>

\* The caller passes the list it holds to evaluate once more.
CallAgain ==
  /\ pc = "returned"
  /\ calls < MaxCalls
  /\ pc' = "evaluate"
  /\ UNCHANGED <<tables, zone, csvFilesData>>
  /\ UNCHANGED evalVars
  /\ UNCHANGED handlerVars

NextEval ==
  \/ Group
  \/ LeastWordy
  \/ MostSpeaches
  \/ MostSecurity
  \/ Return
  \/ CallAgain

SpecEval == InitEval /\ [][NextEval]_vars

(***************************************************************************)
(* What the properties below speak of, read off the request's tables       *)
(***************************************************************************)
Labels == <<"Speaker", "Topic", "Date", "Words">>

\* A table whose first row exists and carries the four labels.
TableValid(t) ==
  /\ Len(t) > 0
  /\ Len(t[1]) >= 4
  /\ \A c \in 1..4 : t[1][c] = Labels[c]

\* The data rows of the valid tables among the first n of list, in order.
RECURSIVE RowsOf(_, _)
RowsOf(list, n) ==
  IF n = 0 THEN <<>>
  ELSE RowsOf(list, n - 1) \o (IF TableValid(list[n]) THEN Tail(list[n]) ELSE <<>>)

InputRows == RowsOf(tables, Len(tables))

RecordOf(row) == [topic |-> row[2], date |-> row[3], words |-> row[4]]

\* The records of the rows of one speaker, in row order.
RecordsOf(name, rows) ==
  LET mine == SelectSeq(rows, LAMBDA r : r[1] = name)
  IN  [i \in DOMAIN mine |-> RecordOf(mine[i])]

RECURSIVE RecordCount(_, _)
RecordCount(table, n) ==
  IF n = 0 THEN 0 ELSE RecordCount(table, n - 1) + Len(table[n].val.speaches)

\* The index of the first row of a speaker: when the speaker was first met.
FirstRow(name, rows) ==
  CHOOSE i \in DOMAIN rows : rows[i][1] = name /\ \A j \in 1..(i - 1) : rows[j][1] # name

\* A record's word count with a malformed field counting 0.
WordsOrZero(speach) == IF ParseInt(speach.words).nan THEN 0 ELSE ParseInt(speach.words).v

RECURSIVE WordSum(_, _)
WordSum(speaches, n) ==
  IF n = 0 THEN 0 ELSE WordSum(speaches, n - 1) + WordsOrZero(speaches[n])

\* A speaker's word total with malformed fields counting 0.
WordTotal(entry) == WordSum(entry.val.speaches, Len(entry.val.speaches))

\* A speaker's number of records the code counts as matching the year or
\* topic filter.
Matches(entry, filterOptions) ==
  Cardinality({i \in DOMAIN entry.val.speaches :
     IF filterOptions.option = "filterByYear"
     THEN GetFullYear(entry.val.speaches[i].date, zone) = Num(filterOptions.value)
     ELSE entry.val.speaches[i].topic = filterOptions.value})

Entry(table, name) == table[CHOOSE i \in DOMAIN table : table[i].key = name]

AfterGroup == {"leastWordy", "mostSpeaches", "mostSecurity", "stringify", "returned"}

AllNull == JsonStringify(<<>>, <<>>, <<>>)

(***************************************************************************)
(* C1: for every list of tables that each have a first row, and every      *)
(* speaker name in them, sortAndGroupData puts each data row of each valid *)
(* table into exactly one speaker entry, the one keyed by the row's        *)
(* speaker field, and the records of all entries number the data rows of   *)
(* the valid tables.                                                       *)
(***************************************************************************)
C1_EveryRowGrouped ==
  (/\ calls = 1
   /\ pc \in {"leastWordy", "thrown"}
   /\ \A i \in DOMAIN tables : Len(tables[i]) > 0)
  => /\ pc = "leastWordy"
     /\ \A i, j \in DOMAIN speakers : speakers[i].key = speakers[j].key => i = j
     /\ \A i \in DOMAIN InputRows : HasOwn(speakers, InputRows[i][1])
     /\ \A i \in DOMAIN speakers :
          /\ speakers[i].val.name = speakers[i].key
          /\ speakers[i].val.speaches = RecordsOf(speakers[i].key, InputRows)
     /\ RecordCount(speakers, Len(speakers)) = Len(InputRows)

(***************************************************************************)
(* C2: evaluate run a second time on the same list of tables returns the   *)
(* result it returned the first time.                                      *)
(***************************************************************************)
C2_SecondRunSameResult ==
  (calls = 2 /\ pc \in {"returned", "thrown"})
  => (pc = "returned" /\ results[2] = results[1])

(***************************************************************************)
(* C3: in getLeastWordySpeaker a malformed words field counts 0: every     *)
(* speaker's total is the sum of the other records' word counts, and the   *)
(* answer is a speaker of minimum such total.                              *)
(***************************************************************************)
C3_MalformedWordsCountZero ==
  (calls = 1 /\ pc = "mostSpeaches")
  => /\ \A i \in DOMAIN speakers :
          TotalWords(speakers[i].val.speaches) = Num(WordTotal(speakers[i]))
     /\ speakers # <<>> =>
          /\ leastWordy # <<>>
          /\ HasOwn(speakers, leastWordy[1])
          /\ \A i \in DOMAIN speakers :
               WordTotal(Entry(speakers, leastWordy[1])) <= WordTotal(speakers[i])

(***************************************************************************)
(* C4: a table whose first row fails the header validation, a short first  *)
(* row and a missing first row included, is skipped without a fault; when  *)
(* every table is invalid or there is none, the SpeakerTable is empty and  *)
(* evaluate returns null for all three answers.                            *)
(***************************************************************************)
C4_InvalidTablesSkipped ==
  (calls = 1 /\ \A i \in DOMAIN tables : ~TableValid(tables[i]))
  => /\ pc # "thrown"
     /\ speakers = <<>>
     /\ pc = "returned" => results[1] = AllNull

(***************************************************************************)
(* C5: when several speakers tie for the winning value of a ranking, the   *)
(* ranking returns the tied speaker met first in input order, whatever     *)
(* the speaker names are.  (Stated for lists whose words fields all        *)
(* parse, so that every total is a number.)                                *)
(***************************************************************************)
FirstMet(names) ==
  CHOOSE n \in names : \A m \in names : FirstRow(n, InputRows) <= FirstRow(m, InputRows)

AllWordsParse ==
  \A i \in DOMAIN InputRows : ~ParseInt(InputRows[i][4]).nan

TiedWordy ==
  {speakers[i].key : i \in {j \in DOMAIN speakers :
      WordTotal(speakers[j]) = WordTotal(Entry(speakers, leastWordy[1]))}}

TiedMost(answer, filterOptions) ==
  {speakers[i].key : i \in {j \in DOMAIN speakers :
      Matches(speakers[j], filterOptions) = Matches(Entry(speakers, answer[1]), filterOptions)}}

C5_TieGoesToFirstMet ==
  (calls = 1 /\ pc = "stringify" /\ AllWordsParse)
  => /\ leastWordy # <<>> => leastWordy[1] = FirstMet(TiedWordy)
     /\ mostSpeaches # <<>> => mostSpeaches[1] = FirstMet(TiedMost(mostSpeaches, YearOptions))
     /\ mostSecurity # <<>> => mostSecurity[1] = FirstMet(TiedMost(mostSecurity, TopicOptions))

(***************************************************************************)
(* C6: getFilteredSpeaker returns a speaker whose number of matching       *)
(* records is the largest of all speakers and at least 1, never a speaker  *)
(* without a matching record, and null exactly when no speaker has a       *)
(* matching record.  A record matches by year when the calendar year its   *)
(* date names is the target year, and by topic when its topic is the       *)
(* target text.                                                            *)
(***************************************************************************)
\* The calendar year a date text names.
CalendarYear(date) ==
  IF DateParse(date).valid THEN Num(DateParse(date).year) ELSE NaN

\* A speaker's number of records of the target year or the target topic.
Matching(entry, filterOptions) ==
  Cardinality({i \in DOMAIN entry.val.speaches :
     IF filterOptions.option = "filterByYear"
     THEN CalendarYear(entry.val.speaches[i].date) = Num(filterOptions.value)
     ELSE entry.val.speaches[i].topic = filterOptions.value})

MostMatching(answer, filterOptions) ==
  /\ answer = <<>> <=> \A i \in DOMAIN speakers : Matching(speakers[i], filterOptions) = 0
  /\ answer # <<>> =>
       /\ HasOwn(speakers, answer[1])
       /\ Matching(Entry(speakers, answer[1]), filterOptions) >= 1
       /\ \A i \in DOMAIN speakers :
            Matching(speakers[i], filterOptions) <= Matching(Entry(speakers, answer[1]), filterOptions)

C6_FilteredMostIsMaxAndPositive ==
  /\ pc \in {"mostSecurity", "stringify", "returned"} => MostMatching(mostSpeaches, YearOptions)
  /\ pc \in {"stringify", "returned"} => MostMatching(mostSecurity, TopicOptions)

(***************************************************************************)
(* C7: getLeastWordySpeaker returns null exactly when the SpeakerTable is  *)
(* empty, and otherwise a speaker whose total, the sum of the integer      *)
(* word counts of the speaker's records, is at most every other speaker's. *)
(***************************************************************************)
C7_LeastWordyIsMinimum ==
  (calls = 1 /\ pc = "mostSpeaches")
  => /\ leastWordy = <<>> <=> speakers = <<>>
     /\ leastWordy # <<>> =>
          \A i \in DOMAIN speakers :
            WordSum(Entry(speakers, leastWordy[1]).val.speaches,
                    Len(Entry(speakers, leastWordy[1]).val.speaches))
              <= WordSum(speakers[i].val.speaches, Len(speakers[i].val.speaches))

(***************************************************************************)
(* C8: the merge is independent of the order of the tables: for every      *)
(* permutation of the list, sortAndGroupData yields the same speaker       *)
(* names and for each the same records up to order, and evaluate returns   *)
(* the same three answers whenever no ranking has a tie.                   *)
(***************************************************************************)
TableOrders(n) ==
  {p \in [1..n -> 1..n] : \A i, j \in 1..n : p[i] = p[j] => i = j}

Occurrences(seq, x) == Cardinality({i \in DOMAIN seq : seq[i] = x})

SameRecords(a, b) ==
  /\ Len(a) = Len(b)
  /\ \A i \in DOMAIN a : Occurrences(a, a[i]) = Occurrences(b, a[i])

SameGrouping(g, h) ==
  /\ {g[i].key : i \in DOMAIN g} = {h[i].key : i \in DOMAIN h}
  /\ \A i \in DOMAIN g : SameRecords(g[i].val.speaches, Entry(h, g[i].key).val.speaches)

DifferentMatches(a, b, filterOptions) ==
  \/ MatchCount(a, filterOptions, zone) = 0
  \/ MatchCount(a, filterOptions, zone) # MatchCount(b, filterOptions, zone)

\* No two speakers have the same word total (a malformed field counting 0),
\* nor the same positive number of matches of a filter.
NoTie(g) ==
  \A i, j \in DOMAIN g :
    i # j =>
      /\ WordTotal(g[i]) # WordTotal(g[j])
      /\ DifferentMatches(g[i].val.speaches, g[j].val.speaches, YearOptions)
      /\ DifferentMatches(g[i].val.speaches, g[j].val.speaches, TopicOptions)

Answers(g) ==
  <<getLeastWordySpeaker(g).ret, getFilteredSpeaker(g, YearOptions, zone).ret,
    getFilteredSpeaker(g, TopicOptions, zone).ret>>

SameOutcome(a, b) ==
  /\ a.threw = b.threw
  /\ ~a.threw =>
       /\ SameGrouping(a.speakers, b.speakers)
       /\ NoTie(a.speakers) => Answers(a.speakers) = Answers(b.speakers)

C8_OrderIndependentMerge ==
  (calls = 0 /\ pc = "evaluate")
  => \A p \in TableOrders(Len(tables)) :
       SameOutcome(sortAndGroupData(tables),
                   sortAndGroupData([i \in DOMAIN tables |-> tables[p[i]]]))

(***************************************************************************)
(* C10: the three ranking queries of evaluate leave the grouped            *)
(* SpeakerTable as sortAndGroupData built it, and each query's answer is   *)
(* the same in whichever order the three are run.                          *)
(***************************************************************************)
Queries == {"leastWordy", "mostSpeaches", "mostSecurity"}

RunQuery(q, table) ==
  IF q = "leastWordy" THEN getLeastWordySpeaker(table)
  ELSE IF q = "mostSpeaches" THEN getFilteredSpeaker(table, YearOptions, zone)
  ELSE getFilteredSpeaker(table, TopicOptions, zone)

\* The first n queries of order run one after the other from table: the
\* table they leave and the answer of each.
RECURSIVE RunQueries(_, _, _)
RunQueries(order, n, table) ==
  IF n = 0 THEN [speakers |-> table, answers |-> <<>>]
  ELSE LET before == RunQueries(order, n - 1, table)
           r == RunQuery(order[n], before.speakers)
       IN  [speakers |-> r.speakers, answers |-> Append(before.answers, r.ret)]

Orders == {o \in [1..3 -> Queries] : \A i, j \in 1..3 : o[i] = o[j] => i = j}

\* In every order the queries leave the table as it was and each gives
\* the answer it gives when run alone on the table.
OrderFree(table) ==
  LET alone == [q \in Queries |-> RunQuery(q, table).ret]
  IN  \A o \in Orders :
        LET run == RunQueries(o, 3, table)
        IN  /\ run.speakers = table
            /\ \A i \in 1..3 : run.answers[i] = alone[o[i]]

C10_QueriesLeaveTableUnchanged ==
  (calls = 1 /\ pc \in AfterGroup)
  => LET grouped == sortAndGroupData(tables).speakers
     IN  /\ speakers = grouped
         /\ pc = "leastWordy" => OrderFree(speakers)
         /\ pc \in {"stringify", "returned"} =>
              /\ leastWordy = RunQuery("leastWordy", grouped).ret
              /\ mostSpeaches = RunQuery("mostSpeaches", grouped).ret
              /\ mostSecurity = RunQuery("mostSecurity", grouped).ret

\* All three queries have run on a table of two speakers and named one.
C10_Witness ==
  /\ calls = 1
  /\ pc = "returned"
  /\ Len(speakers) = 2
  /\ leastWordy # <<>> /\ mostSpeaches # <<>> /\ mostSecurity # <<>>
  /\ leastWordy # mostSpeaches

(***************************************************************************)
(* C9: within a request the URLs are fetched one at a time in request      *)
(* order, the fetch of a URL beginning only when every URL before it has   *)
(* been fetched; evaluate is invoked only after every fetch succeeded,     *)
(* with table k the parse of URL k; and when a fetch fails no later URL    *)
(* is fetched, evaluate is never invoked and nothing is logged.            *)
(***************************************************************************)
C9_SequentialFetchAllOrNothing ==
  /\ Cardinality(inflight) <= 1
  /\ \A k \in inflight : Len(csvFilesData) = k - 1 /\ nextUrl = k + 1
  /\ pc = "getCSVData" =>
       /\ Len(csvFilesData) <= Len(tables)
       /\ \A k \in DOMAIN csvFilesData : csvFilesData[k] = tables[k]
       /\ inflight = {} => nextUrl = Len(csvFilesData) + 1
  /\ (pc = "evaluate" \/ calls > 0) => Len(csvFilesData) = Len(urls)
  /\ pc = "evaluate" => csvFilesData = tables
  /\ pc = "rejected" =>
       /\ inflight = {}
       /\ nextUrl = Len(csvFilesData) + 2
       /\ calls = 0
       /\ results = <<>>
       /\ logged = <<>>
       /\ ~ENABLED Next
  /\ logged # <<>> => pc = "logged"

\* The second of two fetches has failed after the first delivered its table.
C9_Witness ==
  /\ pc = "rejected"
  /\ Len(urls) = 2
  /\ Len(csvFilesData) = 1
  /\ Len(csvFilesData[1]) = 2
====
